---- MODULE Spec2Model ----
(***************************************************************************)
(* Signaling relay of webrtc-karaoke (server-https.js, SignalingServer).   *)
(* The state is the room table, the binding table, the transport state of  *)
(* every connection and the two timers (heartbeat, janitor).  Every        *)
(* handler of the server is one action; what a handler writes to sockets   *)
(* is recorded in `out`.                                                   *)
(***************************************************************************)
EXTENDS Integers, Sequences, FiniteSets, TLC

VARIABLES rooms, roomOrder, connections, connectionCount, maxConnections,
          handlers, net, isAlive, out, frames, client

vars == <<rooms, roomOrder, connections, connectionCount, maxConnections,
          handlers, net, isAlive, out, frames, client>>

serverVars == <<rooms, roomOrder, connections, connectionCount, maxConnections,
                handlers, net, isAlive, out, frames>>

(* ------------------------------ bounds -------------------------------- *)
\* number of transport connections that are ever opened
NumConns == 3
\* number of frames the server decodes and dispatches in one run
MaxFrames == 3
\* number of frames in the runs on which progress is checked
MaxLiveFrames == 2
\* number of unbound connections next to a room that is one short of full
CapSpare == 2
\* number of signaling sockets one client page ever creates
MaxSockets == 5

Conns == 1..NumConns

(* ------------------------- program constants -------------------------- *)
\* process.env.MAX_CONNECTIONS and MAX_ROOMS as the server is run here
MAX_CONNECTIONS == 2
\* this.maxConnections when MAX_CONNECTIONS is not set
defaultMaxConnections == 1000
maxRooms == 2
viewerCap == 50
maxRoomIdLength == 20
\* the clients' retry ceiling, the step of their reconnection delay (ms) and
\* the close code they treat as expected
maxRetries == 3
reconnectDelay == 2000
normalClosure == 1000

(* ------------------------- JavaScript values -------------------------- *)
\* a field of a decoded frame: a string, or absent (undefined), or a number
Str(s) == [t |-> "string", v |-> s]
Undefined == [t |-> "undefined", v |-> ""]
Num7 == [t |-> "number", v |-> "7"]

\* !x for the values above
JsFalsy(x) == x.t = "undefined" \/ (x.t = "string" /\ x.v = "")
JsTypeof(x) == x.t

LongId == "ABCDEFGHIJKLMNOPQRSTU"
RoomNames == {"A", "B", "C"}
RoomIdInputs == {Str(r) : r \in RoomNames} \cup {Str(""), Str(LongId), Undefined, Num7}

\* the tokens generateViewerId can return (Math.random draws them)
ViewerIds == {"viewer_a", "viewer_b"}
ViewerIdInputs == {Str(v) : v \in ViewerIds} \cup {Undefined}
Payloads == {"sdp1", "sdp2"}
NoPayload == ""
\* the values JSON.parse can hand to a handler as offer, answer or candidate:
\* the descriptions above, null, and the number a literal beyond the range of
\* a double (1e400) is read as
JsonNull == "null"
Infinity == "Infinity"
JsonValues == Payloads \cup {JsonNull, Infinity}

\* JSON.stringify of such a value (the text written to the socket): a number
\* that is not finite is written as null
JSONstringify(v) == IF v \in {JsonNull, Infinity} THEN "null" ELSE "\"" \o v \o "\""

\* JSON.parse of such a text by the recipient
JSONparse(text) ==
    IF text = "null" THEN JsonNull
    ELSE CHOOSE v \in Payloads : "\"" \o v \o "\"" = text

(* ------------------------------ helpers ------------------------------- *)
Put(f, k, v) == [x \in (DOMAIN f) \cup {k} |-> IF x = k THEN v ELSE f[x]]
Remove(f, k) == [x \in (DOMAIN f) \ {k} |-> f[x]]
SeqRemove(s, e) == SelectSeq(s, LAMBDA x : x # e)
SeqAdd(s, e) == IF \E i \in DOMAIN s : s[i] = e THEN s ELSE Append(s, e)
Range(s) == {s[i] : i \in DOMAIN s}

\* net[c] is the transport under connection c:
\*   NEW        not yet upgraded
\*   OPEN       open (a half-open socket, whose peer is gone, reads OPEN too)
\*   CLOSING    the server called close(): the closing handshake is pending
\*   DESTROYED  the socket was destroyed by terminate(); 'close' has not been
\*              emitted yet
\*   FAILED     the socket failed and 'error' was emitted; 'close' has not
\*              been emitted yet
\*   CLOSED     'close' was emitted
\* ws.readyState as the server reads it
readyState(c) ==
    CASE net[c] = "OPEN" -> "OPEN"
      [] net[c] = "NEW" -> "CONNECTING"
      [] net[c] \in {"CLOSING", "DESTROYED", "FAILED"} -> "CLOSING"
      [] OTHER -> "CLOSED"

IsOpen(c) == readyState(c) = "OPEN"

(* ------------------------------ messages ------------------------------ *)
Msg(to, type, roomId, viewerId, payload, message) ==
    [to |-> to, type |-> type, roomId |-> roomId, viewerId |-> viewerId,
     payload |-> payload, message |-> message]

ErrorMsg(to, text) == Msg(to, "error", "", "", NoPayload, text)
RoomNotFound(to) == Msg(to, "room-not-found", "", "", NoPayload, "")
Notify(to, type, viewerId) == Msg(to, type, "", viewerId, NoPayload, "")
\* a relayed frame as its recipient decodes it
Forward(to, type, viewerId, payload) ==
    Msg(to, type, "", viewerId, JSONparse(JSONstringify(payload)), "")

\* ws.close(code, reason): the close frame the server writes
Close(to, code, reason) == [to |-> to, type |-> "close", code |-> code, reason |-> reason]
\* the codes the server closes with
closeOverloaded == 1013
closeExpired == 1000
closeTooLarge == 1009
closeInvalidFormat == 1003
closeInternalError == 1011

(* ------------- the client page (host-production.js, KaraokeHost) ------- *)
\* The viewer page (host.js, KaraokeViewer) has the same connection logic
\* with join-room for create-room.  `client` holds the fields of the object
\* and what the browser holds for it:
\*   connectionRetries, roomId, socket, reconnectInterval   fields
\*   startDisabled     startButton.disabled
\*   status            the text shown by updateStatus
\*   sockets           the phase of every WebSocket created
\*   starting, reconnecting   the sockets whose connect promise is pending,
\*                     awaited by startSharing / by a reconnection timer
\*   armed             the sockets whose connectionTimeout is pending
\*   timers            the pending reconnection timers (id, delay)
\*   timersSet         number of reconnection timers set so far
\*   attempts          connections tried by reconnection timers since the
\*                     last onopen
\*   sent              the frames written by the last step
Sockets == 1..MaxSockets
Null == [t |-> "null", v |-> ""]

\* after the constructor
KaraokeHost ==
    [connectionRetries |-> 0, roomId |-> Null, socket |-> {}, reconnectInterval |-> {},
     startDisabled |-> FALSE, status |-> "",
     sockets |-> [s \in Sockets |-> "NONE"],
     starting |-> {}, reconnecting |-> {}, armed |-> {},
     timers |-> {}, timersSet |-> 0, attempts |-> 0, sent |-> <<>>]

updateStatus(k, text) == [k EXCEPT !.status = text]

attemptReconnection(k) ==
    IF k.connectionRetries >= maxRetries
    THEN updateStatus(k, "Failed to reconnect. Please refresh the page.")
    ELSE LET n == k.connectionRetries + 1
             t == k.timersSet + 1
         IN [k EXCEPT !.connectionRetries = n,
                      !.status = "Reconnecting...",
                      !.timers = @ \cup {[id |-> t, delay |-> reconnectDelay * n]},
                      !.reconnectInterval = {t},
                      !.timersSet = t]

sendSignalingMessage(k, type) ==
    IF k.socket = {} \/ \A s \in k.socket : k.sockets[s] # "OPEN"
    THEN k
    ELSE [k EXCEPT !.sent = @ \o [i \in 1..1 |-> [socket |-> CHOOSE s \in k.socket : TRUE,
                                                  type |-> type]]]

\* socket.close() as the browser performs it: a socket that is still
\* connecting fails (its error and close events follow), an open one starts
\* the closing handshake
SocketClose(k, s) ==
    [k EXCEPT !.sockets[s] = CASE @ = "CONNECTING" -> "ABORTED"
                               [] @ = "OPEN" -> "CLOSING"
                               [] OTHER -> @]

CloseSocket(k) ==
    IF k.socket = {} THEN k
    ELSE [SocketClose(k, CHOOSE s \in k.socket : TRUE) EXCEPT !.socket = {}]

cleanup(k) ==
    [CloseSocket(k) EXCEPT
        !.timers = {t \in @ : t.id \notin k.reconnectInterval},
        !.reconnectInterval = {},
        !.startDisabled = FALSE,
        !.roomId = Null,
        !.connectionRetries = 0]

\* new WebSocket(serverUrl) and the handlers set on it; `awaited` names the
\* caller that awaits the promise
connectToSignalingServer(k, awaited) ==
    LET s == CHOOSE x \in Sockets : k.sockets[x] = "NONE" /\ \A y \in 1..(x - 1) : k.sockets[y] # "NONE"
    IN [k EXCEPT !.sockets[s] = "CONNECTING",
                 !.socket = {s},
                 !.armed = @ \cup {s},
                 !.starting = IF awaited = "startSharing" THEN @ \cup {s} ELSE @,
                 !.reconnecting = IF awaited = "attemptReconnection" THEN @ \cup {s} ELSE @]

\* the promise of socket s is resolved: the code after `await` runs
resolve(k, s) ==
    IF s \in k.starting
    THEN LET k1 == [k EXCEPT !.starting = @ \ {s}, !.roomId = Str("A")]
             k2 == sendSignalingMessage(k1, "create-room")
         IN [k2 EXCEPT !.startDisabled = TRUE, !.status = "Sharing started - Room created"]
    ELSE IF s \in k.reconnecting
    THEN LET k1 == [k EXCEPT !.reconnecting = @ \ {s}]
         IN IF k1.roomId # Null THEN sendSignalingMessage(k1, "create-room") ELSE k1
    ELSE k

\* the promise of socket s is rejected: the catch block of the caller runs
reject(k, s) ==
    IF s \in k.starting
    THEN cleanup(updateStatus([k EXCEPT !.starting = @ \ {s}], "Failed to start sharing"))
    ELSE IF s \in k.reconnecting
    THEN attemptReconnection([k EXCEPT !.reconnecting = @ \ {s}])
    ELSE k

onopen(k, s) ==
    resolve([k EXCEPT !.armed = @ \ {s},
                      !.connectionRetries = 0,
                      !.attempts = 0,
                      !.status = "Connected to signaling server"], s)

onclose(k, s, code) ==
    LET k1 == [k EXCEPT !.armed = @ \ {s}]
    IN IF code # normalClosure /\ k1.roomId # Null
       THEN attemptReconnection(k1)
       ELSE updateStatus(k1, "Disconnected from signaling server")

onerror(k, s) ==
    reject([k EXCEPT !.armed = @ \ {s}, !.status = "Connection error occurred"], s)

\* the connectionTimeout callback of socket s
connectionTimeout(k, s) ==
    LET k1 == [k EXCEPT !.armed = @ \ {s}]
    IN IF k1.socket = {} THEN k1
       ELSE LET cur == CHOOSE x \in k1.socket : TRUE
            IN IF k1.sockets[cur] = "CONNECTING"
               THEN reject(SocketClose(k1, cur), s)
               ELSE k1

(* ------------------------------- Init --------------------------------- *)
Init ==
    /\ rooms = [r \in {} |-> 0]
    /\ roomOrder = <<>>
    /\ connections = [c \in {} |-> 0]
    /\ connectionCount = 0
    /\ maxConnections = MAX_CONNECTIONS
    /\ handlers = {}
    /\ net = [c \in Conns |-> "NEW"]
    /\ isAlive = [c \in Conns |-> FALSE]
    /\ out = <<>>
    /\ frames = 0
    /\ client = KaraokeHost

(* --------------------- wss.on('connection', ...) ---------------------- *)
\* the connection handler with > for >= in its test of the cap
OnConnection_OffByOne(ws) ==
    /\ net[ws] = "NEW"
    /\ IF connectionCount > maxConnections
       THEN /\ net' = [net EXCEPT ![ws] = "CLOSING"]
            /\ out' = <<Close(ws, closeOverloaded, "Server overloaded")>>
            /\ UNCHANGED <<connectionCount, handlers, isAlive>>
       ELSE /\ net' = [net EXCEPT ![ws] = "OPEN"]
            /\ connectionCount' = connectionCount + 1
            /\ handlers' = handlers \cup {ws}
            /\ isAlive' = [isAlive EXCEPT ![ws] = TRUE]
            /\ out' = <<>>
    /\ UNCHANGED <<rooms, roomOrder, connections, maxConnections, frames>>
    /\ UNCHANGED client

OnConnection(ws) ==
    /\ net[ws] = "NEW"
    /\ IF connectionCount >= maxConnections
       THEN /\ net' = [net EXCEPT ![ws] = "CLOSING"]
            /\ out' = <<Close(ws, closeOverloaded, "Server overloaded")>>
            /\ UNCHANGED <<connectionCount, handlers, isAlive>>
       ELSE /\ net' = [net EXCEPT ![ws] = "OPEN"]
            /\ connectionCount' = connectionCount + 1
            /\ handlers' = handlers \cup {ws}
            /\ isAlive' = [isAlive EXCEPT ![ws] = TRUE]
            /\ out' = <<>>
    /\ UNCHANGED <<rooms, roomOrder, connections, maxConnections, frames>>
    /\ UNCHANGED client

(* ------------------- handler effects on shared state ------------------- *)
\* what a handler leaves behind: the two tables and the frames it wrote
Effect(rms, order, conns, sent) ==
    [rooms |-> rms, roomOrder |-> order, connections |-> conns, out |-> sent]

NoEffect == Effect(rooms, roomOrder, connections, <<>>)
Reply(m) == Effect(rooms, roomOrder, connections, <<m>>)

\* !roomId || typeof roomId !== 'string' || roomId.length > 20
InvalidRoomId(roomId) ==
    \/ JsFalsy(roomId)
    \/ JsTypeof(roomId) # "string"
    \/ Len(roomId.v) > maxRoomIdLength

\* the capacity test with > for >=
RoomsAtCapacity_OffByOne == Cardinality(DOMAIN rooms) > maxRooms

\* this.rooms.size >= this.maxRooms
RoomsAtCapacity == Cardinality(DOMAIN rooms) >= maxRooms

\* handleCreateRoom without the rooms.has(roomId) test: the room is replaced
handleCreateRoom_NoDuplicateTest(ws, roomId) ==
    IF InvalidRoomId(roomId) THEN Reply(ErrorMsg(ws, "Invalid room ID"))
    ELSE IF RoomsAtCapacity THEN Reply(ErrorMsg(ws, "Maximum rooms reached"))
    ELSE Effect(Put(rooms, roomId.v, [host |-> ws, viewers |-> <<>>, expired |-> FALSE]),
                SeqAdd(roomOrder, roomId.v),
                Put(connections, ws, [type |-> "host", roomId |-> roomId.v, viewerId |-> Undefined]),
                <<Msg(ws, "room-created", roomId.v, "", NoPayload, "")>>)

\* handleCreateRoom binding the requester before it tests the request
handleCreateRoom_BindsFirst(ws, roomId) ==
    LET bound == Put(connections, ws,
                     [type |-> "host", roomId |-> roomId.v, viewerId |-> Undefined])
    IN IF InvalidRoomId(roomId)
       THEN Effect(rooms, roomOrder, bound, <<ErrorMsg(ws, "Invalid room ID")>>)
       ELSE IF RoomsAtCapacity
       THEN Effect(rooms, roomOrder, bound, <<ErrorMsg(ws, "Maximum rooms reached")>>)
       ELSE IF roomId.v \in DOMAIN rooms
       THEN Effect(rooms, roomOrder, bound, <<ErrorMsg(ws, "Room already exists")>>)
       ELSE Effect(Put(rooms, roomId.v, [host |-> ws, viewers |-> <<>>, expired |-> FALSE]),
                   SeqAdd(roomOrder, roomId.v),
                   bound,
                   <<Msg(ws, "room-created", roomId.v, "", NoPayload, "")>>)

handleCreateRoom(ws, roomId) ==
    IF InvalidRoomId(roomId) THEN Reply(ErrorMsg(ws, "Invalid room ID"))
    ELSE IF RoomsAtCapacity THEN Reply(ErrorMsg(ws, "Maximum rooms reached"))
    ELSE IF roomId.v \in DOMAIN rooms THEN Reply(ErrorMsg(ws, "Room already exists"))
    ELSE Effect(Put(rooms, roomId.v, [host |-> ws, viewers |-> <<>>, expired |-> FALSE]),
                Append(roomOrder, roomId.v),
                Put(connections, ws, [type |-> "host", roomId |-> roomId.v, viewerId |-> Undefined]),
                <<Msg(ws, "room-created", roomId.v, "", NoPayload, "")>>)

\* !roomId || typeof roomId !== 'string', then !this.rooms.has(roomId)
JoinRoomMissing(roomId) ==
    \/ JsFalsy(roomId)
    \/ JsTypeof(roomId) # "string"
    \/ roomId.v \notin DOMAIN rooms

\* the test of the viewer cap with > for >=
RoomIsFull_OffByOne(room) == Len(room.viewers) > viewerCap

\* room.viewers.size >= 50
RoomIsFull(room) == Len(room.viewers) >= viewerCap

\* handleJoinRoom binding the requester before it looks the room up
handleJoinRoom_BindsFirst(ws, roomId, viewerId) ==
    IF JoinRoomMissing(roomId)
    THEN Effect(rooms, roomOrder,
                Put(connections, ws, [type |-> "viewer", roomId |-> roomId.v, viewerId |-> Str(viewerId)]),
                <<RoomNotFound(ws)>>)
    ELSE LET room == rooms[roomId.v] IN
         Effect([rooms EXCEPT ![roomId.v].viewers = SeqAdd(room.viewers, ws)],
                roomOrder,
                Put(connections, ws, [type |-> "viewer", roomId |-> roomId.v, viewerId |-> Str(viewerId)]),
                <<Msg(ws, "room-joined", roomId.v, viewerId, NoPayload, "")>>
                \o (IF IsOpen(room.host)
                    THEN <<Notify(room.host, "viewer-joined", viewerId)>>
                    ELSE <<>>))

\* viewerId is what generateViewerId returned for this call
handleJoinRoom(ws, roomId, viewerId) ==
    IF JoinRoomMissing(roomId) THEN Reply(RoomNotFound(ws))
    ELSE LET room == rooms[roomId.v] IN
         IF RoomIsFull(room) THEN Reply(ErrorMsg(ws, "Room is full"))
         ELSE Effect([rooms EXCEPT ![roomId.v].viewers = SeqAdd(room.viewers, ws)],
                     roomOrder,
                     Put(connections, ws, [type |-> "viewer", roomId |-> roomId.v, viewerId |-> Str(viewerId)]),
                     <<Msg(ws, "room-joined", roomId.v, viewerId, NoPayload, "")>>
                     \o (IF IsOpen(room.host)
                         THEN <<Notify(room.host, "viewer-joined", viewerId)>>
                         ELSE <<>>))

\* handleLeaveRoom answering an unbound sender with an error
handleLeaveRoom_RepliesWhenUnbound(ws) ==
    IF ws \notin DOMAIN connections THEN Reply(ErrorMsg(ws, "Not in a room"))
    ELSE LET connection == connections[ws] IN
         IF connection.roomId \notin DOMAIN rooms THEN NoEffect
         ELSE LET room == rooms[connection.roomId] IN
              IF connection.type = "viewer"
              THEN Effect([rooms EXCEPT ![connection.roomId].viewers = SeqRemove(room.viewers, ws)],
                          roomOrder,
                          Remove(connections, ws),
                          IF IsOpen(room.host)
                          THEN <<Notify(room.host, "viewer-left", connection.viewerId.v)>>
                          ELSE <<>>)
              ELSE Effect(rooms, roomOrder, Remove(connections, ws), <<>>)

handleLeaveRoom(ws) ==
    IF ws \notin DOMAIN connections THEN NoEffect
    ELSE LET connection == connections[ws] IN
         IF connection.roomId \notin DOMAIN rooms THEN NoEffect
         ELSE LET room == rooms[connection.roomId] IN
              IF connection.type = "viewer"
              THEN Effect([rooms EXCEPT ![connection.roomId].viewers = SeqRemove(room.viewers, ws)],
                          roomOrder,
                          Remove(connections, ws),
                          IF IsOpen(room.host)
                          THEN <<Notify(room.host, "viewer-left", connection.viewerId.v)>>
                          ELSE <<>>)
              ELSE Effect(rooms, roomOrder, Remove(connections, ws), <<>>)

\* the loop of handleOffer / handleIceCandidate: the members of the viewer set
\* whose binding carries viewerId, in insertion order; the loop stops at the
\* first of them
FindViewer(room, viewerId) ==
    SelectSeq(room.viewers,
              LAMBDA v : v \in DOMAIN connections /\ connections[v].viewerId = viewerId)

\* the forward to a viewer without the test of its readyState
ForwardToViewer_NoOpenTest(room, viewerId, type, payload) ==
    LET found == FindViewer(room, viewerId) IN
    IF found # <<>>
    THEN <<Forward(Head(found), type, "", payload)>>
    ELSE <<>>

\* the forward to a viewer, sent to every member when none matches
ForwardToViewer_BroadcastOnMiss(room, viewerId, type, payload) ==
    LET found == FindViewer(room, viewerId) IN
    IF found # <<>>
    THEN IF IsOpen(Head(found)) THEN <<Forward(Head(found), type, "", payload)>> ELSE <<>>
    ELSE [i \in DOMAIN room.viewers |-> Forward(room.viewers[i], type, "", payload)]

ForwardToViewer(room, viewerId, type, payload) ==
    LET found == FindViewer(room, viewerId) IN
    IF found # <<>> /\ IsOpen(Head(found))
    THEN <<Forward(Head(found), type, "", payload)>>
    ELSE <<>>

ForwardToHost(room, connection, type, payload) ==
    IF IsOpen(room.host)
    THEN <<Forward(room.host, type, connection.viewerId.v, payload)>>
    ELSE <<>>

\* handleOffer without the test of the sender's role
handleOffer_NoRoleTest(ws, viewerId, offer) ==
    IF ws \notin DOMAIN connections THEN <<>>
    ELSE IF connections[ws].roomId \notin DOMAIN rooms THEN <<>>
    ELSE ForwardToViewer(rooms[connections[ws].roomId], viewerId, "offer", offer)

handleOffer(ws, viewerId, offer) ==
    IF ws \notin DOMAIN connections \/ connections[ws].type # "host" THEN <<>>
    ELSE IF connections[ws].roomId \notin DOMAIN rooms THEN <<>>
    ELSE ForwardToViewer(rooms[connections[ws].roomId], viewerId, "offer", offer)

handleAnswer(ws, answer) ==
    IF ws \notin DOMAIN connections \/ connections[ws].type # "viewer" THEN <<>>
    ELSE IF connections[ws].roomId \notin DOMAIN rooms THEN <<>>
    ELSE ForwardToHost(rooms[connections[ws].roomId], connections[ws], "answer", answer)

\* handleIceCandidate tagging a viewer's candidate with the frame's viewerId
handleIceCandidate_TagFromFrame(ws, viewerId, candidate) ==
    IF ws \notin DOMAIN connections THEN <<>>
    ELSE IF connections[ws].roomId \notin DOMAIN rooms THEN <<>>
    ELSE IF connections[ws].type = "host"
         THEN ForwardToViewer(rooms[connections[ws].roomId], viewerId, "ice-candidate", candidate)
         ELSE ForwardToHost(rooms[connections[ws].roomId],
                            [connections[ws] EXCEPT !.viewerId = viewerId],
                            "ice-candidate", candidate)

handleIceCandidate(ws, viewerId, candidate) ==
    IF ws \notin DOMAIN connections THEN <<>>
    ELSE IF connections[ws].roomId \notin DOMAIN rooms THEN <<>>
    ELSE IF connections[ws].type = "host"
         THEN ForwardToViewer(rooms[connections[ws].roomId], viewerId, "ice-candidate", candidate)
         ELSE ForwardToHost(rooms[connections[ws].roomId], connections[ws], "ice-candidate", candidate)

\* host-disconnected to every member of the viewer set that reads OPEN in n
NotifyViewers(n, viewers) ==
    LET open == SelectSeq(viewers, LAMBDA v : n[v] = "OPEN")
    IN [i \in DOMAIN open |-> Notify(open[i], "host-disconnected", "")]

\* handleDisconnection(ws), run while the transport states are n
handleDisconnection(n, ws) ==
    IF ws \notin DOMAIN connections THEN NoEffect
    ELSE LET connection == connections[ws] IN
         IF connection.roomId \notin DOMAIN rooms THEN NoEffect
         ELSE LET room == rooms[connection.roomId] IN
              IF connection.type = "host"
              THEN Effect(Remove(rooms, connection.roomId),
                          SeqRemove(roomOrder, connection.roomId),
                          Remove(connections, ws),
                          NotifyViewers(n, room.viewers))
              ELSE Effect([rooms EXCEPT ![connection.roomId].viewers = SeqRemove(room.viewers, ws)],
                          roomOrder,
                          Remove(connections, ws),
                          IF n[room.host] = "OPEN"
                          THEN <<Notify(room.host, "viewer-left", connection.viewerId.v)>>
                          ELSE <<>>)

Apply(e) ==
    /\ rooms' = e.rooms
    /\ roomOrder' = e.roomOrder
    /\ connections' = e.connections
    /\ out' = e.out

(* ----------------------- ws.on('message', ...) ------------------------ *)
\* frames are decoded and dispatched by handleMessage; a frame arrives only on
\* a registered connection that is open
CanSend(ws) == ws \in handlers /\ net[ws] = "OPEN"

\* one more frame is dispatched by handleMessage
Dispatch(ws) ==
    /\ CanSend(ws)
    /\ frames < MaxFrames
    /\ frames' = frames + 1

CreateRoom(ws, roomId) ==
    /\ Dispatch(ws)
    /\ Apply(handleCreateRoom(ws, roomId))
    /\ UNCHANGED <<connectionCount, maxConnections, handlers, net, isAlive>>
    /\ UNCHANGED client

JoinRoom(ws, roomId, viewerId) ==
    /\ Dispatch(ws)
    /\ Apply(handleJoinRoom(ws, roomId, viewerId))
    /\ UNCHANGED <<connectionCount, maxConnections, handlers, net, isAlive>>
    /\ UNCHANGED client

LeaveRoom(ws) ==
    /\ Dispatch(ws)
    /\ Apply(handleLeaveRoom(ws))
    /\ UNCHANGED <<connectionCount, maxConnections, handlers, net, isAlive>>
    /\ UNCHANGED client

Offer(ws, viewerId, offer) ==
    /\ Dispatch(ws)
    /\ out' = handleOffer(ws, viewerId, offer)
    /\ UNCHANGED <<rooms, roomOrder, connections, connectionCount, maxConnections, handlers, net, isAlive>>
    /\ UNCHANGED client

Answer(ws, answer) ==
    /\ Dispatch(ws)
    /\ out' = handleAnswer(ws, answer)
    /\ UNCHANGED <<rooms, roomOrder, connections, connectionCount, maxConnections, handlers, net, isAlive>>
    /\ UNCHANGED client

IceCandidate(ws, viewerId, candidate) ==
    /\ Dispatch(ws)
    /\ out' = handleIceCandidate(ws, viewerId, candidate)
    /\ UNCHANGED <<rooms, roomOrder, connections, connectionCount, maxConnections, handlers, net, isAlive>>
    /\ UNCHANGED client

(* ---------------- frames that reach no room handler ------------------- *)
\* what arrives instead of a request of handleMessage's six kinds:
\*   oversize      more than 16384 bytes
\*   not-json      text that JSON.parse rejects
\*   json-null     the text `null`: reading message.type throws
\*   no-type       a JSON value without a truthy `type`
\*   unknown-type  an object whose `type` is none of the six kinds
FrameKinds == {"oversize", "not-json", "json-null", "no-type", "unknown-type"}

\* unknown-type frames closing the connection like undecodable ones
FrameClose_UnknownCloses(kind) ==
    CASE kind = "oversize" -> <<closeTooLarge, "Message too large">>
      [] kind \in {"not-json", "json-null", "unknown-type"} ->
            <<closeInvalidFormat, "Invalid message format">>
      [] OTHER -> <<>>

\* the ws.close(code, reason) of the message handler for such a frame, if any
FrameClose(kind) ==
    CASE kind = "oversize" -> <<closeTooLarge, "Message too large">>
      [] kind \in {"not-json", "json-null"} -> <<closeInvalidFormat, "Invalid message format">>
      [] OTHER -> <<>>

\* the message handler on such a frame: the transport states and the frames
\* written; the tables are not touched
onMessage(ws, kind) ==
    IF FrameClose(kind) = <<>>
    THEN [net |-> net, out |-> <<>>]
    ELSE [net |-> [net EXCEPT ![ws] = "CLOSING"],
          out |-> <<Close(ws, FrameClose(kind)[1], FrameClose(kind)[2])>>]

OtherFrame(ws, kind) ==
    /\ Dispatch(ws)
    /\ net' = onMessage(ws, kind).net
    /\ out' = onMessage(ws, kind).out
    /\ UNCHANGED <<rooms, roomOrder, connections, connectionCount, maxConnections, handlers, isAlive>>
    /\ UNCHANGED client

(* ------------------ ws.on('error') and ws.on('close') ------------------ *)
\* ws.isAlive is read by the heartbeat only, and to no effect once the socket
\* is destroyed: the flag of a destroyed or closed socket is kept as FALSE
Discard(ws) == [isAlive EXCEPT ![ws] = FALSE]

\* the socket fails: ws moves to CLOSING and emits 'error'; 'close' follows
\* the error handler decrementing connectionCount as the close handler does
OnError_Decrements(ws) ==
    /\ net[ws] = "OPEN"
    /\ ws \in handlers
    /\ net' = [net EXCEPT ![ws] = "FAILED"]
    /\ isAlive' = Discard(ws)
    /\ Apply(handleDisconnection(net', ws))
    /\ connectionCount' = connectionCount - 1
    /\ UNCHANGED <<maxConnections, handlers, frames>>
    /\ UNCHANGED client

OnError(ws) ==
    /\ net[ws] = "OPEN"
    /\ ws \in handlers
    /\ net' = [net EXCEPT ![ws] = "FAILED"]
    /\ isAlive' = Discard(ws)
    /\ Apply(handleDisconnection(net', ws))
    /\ UNCHANGED <<connectionCount, maxConnections, handlers, frames>>
    /\ UNCHANGED client

\* 'close': the peer closed, or a close/terminate/error of the server completed
OnClose(ws) ==
    /\ net[ws] \in {"OPEN", "CLOSING", "DESTROYED", "FAILED"}
    /\ net' = [net EXCEPT ![ws] = "CLOSED"]
    /\ IF ws \in handlers
       THEN /\ Apply(handleDisconnection(net', ws))
            /\ connectionCount' = connectionCount - 1
       ELSE /\ Apply(NoEffect)
            /\ UNCHANGED connectionCount
    /\ isAlive' = Discard(ws)
    /\ UNCHANGED <<maxConnections, handlers, frames>>
    /\ UNCHANGED client

(* ------------------------------ heartbeat ------------------------------ *)
\* ws.on('pong'): the peer answers the outstanding ping (a peer that is gone,
\* or stuck, never does)
OnPong(ws) ==
    /\ CanSend(ws)
    /\ ~isAlive[ws]
    /\ isAlive' = [isAlive EXCEPT ![ws] = TRUE]
    /\ out' = <<>>
    /\ UNCHANGED <<rooms, roomOrder, connections, connectionCount, maxConnections, handlers, net, frames>>
    /\ UNCHANGED client

\* this.wss.clients: every socket that was upgraded and has not emitted 'close'
Clients == {c \in Conns : net[c] \in {"OPEN", "CLOSING", "DESTROYED", "FAILED"}}

\* a heartbeat that pings and never terminates
HeartbeatTerminates_Never(ws) == FALSE

\* the test of the heartbeat inverted
HeartbeatTerminates_Inverted(ws) == isAlive[ws]

\* if (!ws.isAlive) return ws.terminate()
HeartbeatTerminates(ws) == ~isAlive[ws]

Heartbeat ==
    /\ net' = [c \in Conns |->
                 IF c \in Clients /\ net[c] # "FAILED" /\ HeartbeatTerminates(c)
                 THEN "DESTROYED" ELSE net[c]]
    /\ isAlive' = [c \in Conns |-> FALSE]
    /\ out' = <<>>
    /\ UNCHANGED <<rooms, roomOrder, connections, connectionCount, maxConnections, handlers, frames>>
    /\ UNCHANGED client

(* ------------------------------- janitor ------------------------------- *)
\* room.host.readyState !== WebSocket.OPEN, with the transport states n
HostNotOpen(n, room) == n[room.host] # "OPEN"

\* (now - room.createdAt) > staleThreshold: of createdAt and the clock the model
\* keeps this one fact per room, which TimePasses turns from FALSE to TRUE
RoomExpired(room) == room.expired

\* the loop of cleanupStaleRooms over this.rooms.entries(), in insertion order,
\* from position i on, with the rooms kept so far and the transport states n
\* and the close frames written so far
RECURSIVE cleanupFrom(_, _, _, _)
cleanupFrom(i, kept, n, sent) ==
    IF i > Len(roomOrder) THEN [rooms |-> kept, net |-> n, out |-> sent]
    ELSE LET roomId == roomOrder[i]
             room == rooms[roomId]
         IN IF HostNotOpen(n, room)
            THEN cleanupFrom(i + 1, Remove(kept, roomId), n, sent)
            ELSE IF RoomExpired(room)
                 THEN cleanupFrom(i + 1, Remove(kept, roomId),
                                  [n EXCEPT ![room.host] = "CLOSING"],
                                  Append(sent, Close(room.host, closeExpired, "Room expired")))
                 ELSE cleanupFrom(i + 1, kept, n, sent)

cleanupStaleRooms == cleanupFrom(1, rooms, net, <<>>)

Janitor ==
    /\ rooms' = cleanupStaleRooms.rooms
    /\ roomOrder' = SelectSeq(roomOrder, LAMBDA r : r \in DOMAIN cleanupStaleRooms.rooms)
    /\ net' = cleanupStaleRooms.net
    /\ out' = cleanupStaleRooms.out
    /\ UNCHANGED <<connections, connectionCount, maxConnections, handlers, isAlive, frames>>
    /\ UNCHANGED client

\* time passes (Date.now() grows): the k oldest rooms are now older than the
\* staleness threshold; rooms age in the order they were created
TimePasses(k) ==
    /\ k \in 1..Len(roomOrder)
    /\ ~rooms[roomOrder[k]].expired
    /\ rooms' = [r \in DOMAIN rooms |->
                   IF \E i \in 1..k : roomOrder[i] = r
                   THEN [rooms[r] EXCEPT !.expired = TRUE]
                   ELSE rooms[r]]
    /\ out' = <<>>
    /\ UNCHANGED <<roomOrder, connections, connectionCount, maxConnections, handlers, net, isAlive, frames>>
    /\ UNCHANGED client

(* -------------------------------- Next --------------------------------- *)
Next ==
    \/ \E ws \in Conns : OnConnection(ws)
    \/ \E ws \in Conns, roomId \in RoomIdInputs : CreateRoom(ws, roomId)
    \/ \E ws \in Conns, roomId \in RoomIdInputs, viewerId \in ViewerIds : JoinRoom(ws, roomId, viewerId)
    \/ \E ws \in Conns : LeaveRoom(ws)
    \/ \E ws \in Conns, viewerId \in ViewerIdInputs, p \in Payloads : Offer(ws, viewerId, p)
    \/ \E ws \in Conns, p \in Payloads : Answer(ws, p)
    \/ \E ws \in Conns, viewerId \in ViewerIdInputs, p \in Payloads : IceCandidate(ws, viewerId, p)
    \/ \E ws \in Conns, kind \in FrameKinds : OtherFrame(ws, kind)
    \/ \E ws \in Conns : OnError(ws)
    \/ \E ws \in Conns : OnClose(ws)
    \/ \E ws \in Conns : OnPong(ws)
    \/ Heartbeat
    \/ Janitor
    \/ \E k \in 1..maxRooms : TimePasses(k)

Spec == Init /\ [][Next]_vars

\* the runs on which progress is checked: the frames that change the tables,
\* at most MaxLiveFrames of them, and every transport and timer event
LiveNext ==
    \/ \E ws \in Conns : OnConnection(ws)
    \/ \E ws \in Conns, roomId \in RoomIdInputs :
          frames < MaxLiveFrames /\ CreateRoom(ws, roomId)
    \/ \E ws \in Conns, roomId \in RoomIdInputs, viewerId \in ViewerIds :
          frames < MaxLiveFrames /\ JoinRoom(ws, roomId, viewerId)
    \/ \E ws \in Conns : frames < MaxLiveFrames /\ LeaveRoom(ws)
    \/ \E ws \in Conns : OnError(ws)
    \/ \E ws \in Conns : OnClose(ws)
    \/ \E ws \in Conns : OnPong(ws)
    \/ Heartbeat
    \/ Janitor
    \/ \E k \in 1..maxRooms : TimePasses(k)

\* the timers of setupCleanupInterval keep firing
FairSpec == Init /\ [][LiveNext]_vars /\ WF_vars(Heartbeat) /\ WF_vars(Janitor)

(* ------------------------ a room about to fill ------------------------ *)
\* The server run with the default maxConnections, after connection 1
\* created room A and connections 2..viewerCap joined it: the room is one
\* viewer short of the cap, and CapSpare more connections are open, unbound.
CapHost == 1
CapViewers == 2..viewerCap
CapConns == 1..(viewerCap + CapSpare)
CapViewerId(c) == "viewer_" \o ToString(c)

CapInit ==
    /\ rooms = [r \in {"A"} |->
                  [host |-> CapHost,
                   viewers |-> [i \in 1..(viewerCap - 1) |-> i + 1],
                   expired |-> FALSE]]
    /\ roomOrder = <<"A">>
    /\ connections = [c \in {CapHost} \cup CapViewers |->
                        IF c = CapHost
                        THEN [type |-> "host", roomId |-> "A", viewerId |-> Undefined]
                        ELSE [type |-> "viewer", roomId |-> "A",
                              viewerId |-> Str(CapViewerId(c))]]
    /\ connectionCount = viewerCap + CapSpare
    /\ maxConnections = defaultMaxConnections
    /\ handlers = CapConns
    /\ net = [c \in CapConns |-> "OPEN"]
    /\ isAlive = [c \in CapConns |-> TRUE]
    /\ out = <<>>
    /\ frames = 0
    /\ client = KaraokeHost

\* the connections that act: the host, one viewer and the unbound ones
CapActors == {CapHost, viewerCap} \cup (CapConns \ ({CapHost} \cup CapViewers))

CapNext ==
    \/ \E ws \in CapActors, roomId \in RoomIdInputs : CreateRoom(ws, roomId)
    \/ \E ws \in CapActors, roomId \in RoomIdInputs, viewerId \in ViewerIds :
          JoinRoom(ws, roomId, viewerId)
    \/ \E ws \in CapActors : LeaveRoom(ws)
    \/ \E ws \in CapActors : OnError(ws)
    \/ \E ws \in CapActors : OnClose(ws)

CapSpec == CapInit /\ [][CapNext]_vars

(* ------------------- a handler that throws (1011) --------------------- *)
\* The handlers call nothing that can throw but send(); a send that throws
\* ends the handler where it stands, and the catch of handleMessage closes the
\* sender.  ThrownFrames are the frames whose handling is cut short this way.
ThrownFrames ==
    [type : {"create-room", "join-room"}, roomId : RoomIdInputs, viewerId : {Str("viewer_a")},
     payload : {"sdp1"}]
    \cup [type : {"leave-room", "answer"}, roomId : {Undefined}, viewerId : {Undefined},
          payload : {"sdp1"}]
    \cup [type : {"offer", "ice-candidate"}, roomId : {Undefined}, viewerId : ViewerIdInputs,
          payload : {"sdp1"}]

\* the switch of handleMessage: the effect of the handler when nothing throws
handleMessage(ws, message) ==
    CASE message.type = "create-room" -> handleCreateRoom(ws, message.roomId)
      [] message.type = "join-room" -> handleJoinRoom(ws, message.roomId, message.viewerId.v)
      [] message.type = "leave-room" -> handleLeaveRoom(ws)
      [] message.type = "offer" ->
            Effect(rooms, roomOrder, connections, handleOffer(ws, message.viewerId, message.payload))
      [] message.type = "answer" ->
            Effect(rooms, roomOrder, connections, handleAnswer(ws, message.payload))
      [] message.type = "ice-candidate" ->
            Effect(rooms, roomOrder, connections,
                   handleIceCandidate(ws, message.viewerId, message.payload))

\* the catch of handleMessage also dropping every binding
thrown_ClearsBindings(ws, message, k) ==
    LET e == handleMessage(ws, message) IN
    Effect(e.rooms, e.roomOrder, [c \in {} |-> 0],
           SubSeq(e.out, 1, k - 1)
             \o <<Close(ws, closeInternalError, "Message processing error")>>)

\* the handler's k-th send throws: what was written to the tables before it
\* stays (create-room and join-room write both tables before their first
\* send; leave-room removes the viewer from the set before its send and the
\* binding after it), the sends before it were made, and the catch closes ws
thrown(ws, message, k) ==
    LET e == handleMessage(ws, message) IN
    Effect(e.rooms, e.roomOrder,
           IF message.type = "leave-room" THEN connections ELSE e.connections,
           SubSeq(e.out, 1, k - 1)
             \o <<Close(ws, closeInternalError, "Message processing error")>>)

HandlerThrows(ws, message, k) ==
    /\ Dispatch(ws)
    /\ k \in 1..Len(handleMessage(ws, message).out)
    /\ Apply(thrown(ws, message, k))
    /\ net' = [net EXCEPT ![ws] = "CLOSING"]
    /\ UNCHANGED <<connectionCount, maxConnections, handlers, isAlive>>
    /\ UNCHANGED client

\* the runs with handlers that throw: the frames that change the tables, the
\* frames whose handler throws, and the connection events
FaultNext ==
    \/ \E ws \in Conns : OnConnection(ws)
    \/ \E ws \in Conns, roomId \in RoomIdInputs : CreateRoom(ws, roomId)
    \/ \E ws \in Conns, roomId \in RoomIdInputs, viewerId \in ViewerIds :
          JoinRoom(ws, roomId, viewerId)
    \/ \E ws \in Conns : LeaveRoom(ws)
    \/ \E ws \in Conns, message \in ThrownFrames, k \in 1..2 : HandlerThrows(ws, message, k)
    \/ \E ws \in Conns : OnError(ws)
    \/ \E ws \in Conns : OnClose(ws)

FaultSpec == Init /\ [][FaultNext]_vars

(* ---------------------- the client page's events ---------------------- *)
\* the outcomes a server close can carry to an open socket: the janitor's
\* expiry (1000) and any other code
LostCodes == {closeExpired, closeOverloaded}
\* the code of the close event of a connection that failed
AbnormalCodes == {1006}

Page == [client EXCEPT !.sent = <<>>]
SocketsLeft == \E s \in Sockets : client.sockets[s] = "NONE"

\* click on startButton
StartSharing ==
    /\ ~client.startDisabled
    /\ SocketsLeft
    /\ client' = connectToSignalingServer(updateStatus(Page, "Starting tab capture..."), "startSharing")
    /\ UNCHANGED serverVars

\* click on stopButton
StopSharing ==
    /\ client.startDisabled
    /\ client' = updateStatus(cleanup(Page), "Sharing stopped")
    /\ UNCHANGED serverVars

\* the connection of socket s is established
SocketOpens(s) ==
    /\ client.sockets[s] = "CONNECTING"
    /\ client' = onopen([Page EXCEPT !.sockets[s] = "OPEN"], s)
    /\ UNCHANGED serverVars

\* socket s fails before it is open: the browser fires `error`, then `close`
\* with an abnormal code; the rejected promise's catch runs in between
SocketFails(s) ==
    /\ client.sockets[s] \in {"CONNECTING", "ABORTED"}
    /\ \E code \in AbnormalCodes :
          client' = onclose(onerror([Page EXCEPT !.sockets[s] = "CLOSED"], s), s, code)
    /\ UNCHANGED serverVars

\* an open socket is closed by the server or the network
SocketLost(s, code) ==
    /\ client.sockets[s] = "OPEN"
    /\ client' = onclose([Page EXCEPT !.sockets[s] = "CLOSED"], s, code)
    /\ UNCHANGED serverVars

\* the close the page asked for with close(1000, ...) completes
SocketClosed(s) ==
    /\ client.sockets[s] = "CLOSING"
    /\ client' = onclose([Page EXCEPT !.sockets[s] = "CLOSED"], s, normalClosure)
    /\ UNCHANGED serverVars

ConnectionTimeout(s) ==
    /\ s \in client.armed
    /\ client' = connectionTimeout(Page, s)
    /\ UNCHANGED serverVars

\* every socket sets at most two reconnection timers: one from the catch
\* of its rejected promise, one from its onclose
TimerIds == 1..(2 * MaxSockets)

\* the callback of the reconnection timer id
ReconnectTimer(id) ==
    /\ \E t \in client.timers : t.id = id
    /\ SocketsLeft
    /\ client' = connectToSignalingServer(
                     [Page EXCEPT !.timers = {t \in @ : t.id # id}, !.attempts = @ + 1],
                     "attemptReconnection")
    /\ UNCHANGED serverVars

ClientNext ==
    \/ StartSharing
    \/ StopSharing
    \/ \E s \in Sockets : SocketOpens(s)
    \/ \E s \in Sockets : SocketFails(s)
    \/ \E s \in Sockets, code \in LostCodes : SocketLost(s, code)
    \/ \E s \in Sockets : SocketClosed(s)
    \/ \E s \in Sockets : ConnectionTimeout(s)
    \/ \E id \in TimerIds : ReconnectTimer(id)

ClientSpec == Init /\ [][ClientNext]_vars

(* ----------------------- vocabulary of the claims ---------------------- *)
ViewerSet(r) == Range(rooms[r].viewers)
Sent(seq, to, type) == {i \in DOMAIN seq : seq[i].to = to /\ seq[i].type = type}
OpenIn(n, c) == n[c] = "OPEN"
HostBinding(r) == [type |-> "host", roomId |-> r, viewerId |-> Undefined]
IsViewerOf(c, r) ==
    /\ c \in DOMAIN connections
    /\ connections[c].type = "viewer"
    /\ connections[c].roomId = r

(* C1: after a host disconnects, each viewer of its room has received exactly
   one host-disconnected and the room is no longer in the room table: no room
   is left whose host's connection has closed, and a step that takes rooms out
   of the table writes to every open connection one host-disconnected for each
   removed room it was a viewer of, and none otherwise. *)
C1_NoRoomOfClosedHost ==
    \A r \in DOMAIN rooms : net[rooms[r].host] # "CLOSED"

C1_RemovalNotifiesViewers ==
    \A v \in Conns :
        (OpenIn(net, v) /\ OpenIn(net', v)) =>
            Cardinality(Sent(out', v, "host-disconnected"))
              = Cardinality({r \in (DOMAIN rooms) \ (DOMAIN rooms') : v \in ViewerSet(r)})

C1_HostDisconnectClosesRoom ==
    [] C1_NoRoomOfClosedHost /\ [][C1_RemovalNotifiesViewers]_vars

(* C2: after a viewer disconnects or leaves, the host received exactly one
   viewer-left with that viewer's identifier and the viewer is in no viewer
   set: every member of a viewer set is a bound connection that has not
   closed, and a step writes one viewer-left (with the member's identifier,
   to the room's open host) for each member it takes out of a room that stays,
   and no other viewer-left. *)
C2_MembersAreLive ==
    \A r \in DOMAIN rooms : \A v \in ViewerSet(r) :
        v \in DOMAIN connections /\ net[v] # "CLOSED"

C2_Departed ==
    {<<r, v>> \in (DOMAIN rooms) \X Conns :
        /\ r \in DOMAIN rooms'
        /\ v \in ViewerSet(r)
        /\ v \notin Range(rooms'[r].viewers)}

C2_OneViewerLeftPerDeparture ==
    /\ \A d \in C2_Departed :
          LET h == rooms[d[1]].host IN
          OpenIn(net', h) =>
              /\ d[2] \in DOMAIN connections
              /\ Cardinality({i \in Sent(out', h, "viewer-left") :
                                 out'[i].viewerId = connections[d[2]].viewerId.v}) = 1
    /\ Cardinality({i \in DOMAIN out' : out'[i].type = "viewer-left"})
          <= Cardinality(C2_Departed)

C2_ViewerLeftExactlyOnce ==
    [] C2_MembersAreLive /\ [][C2_OneViewerLeftPerDeparture]_vars

(* C3: whatever offer, answer or ICE candidate a connection sends, the server
   forwards it to at most one connection, and that connection is bound to the
   sender's room: a host's frame to the member of its room's viewer set whose
   binding carries the viewerId of the frame, a viewer's frame to the host the
   room table records for the room that both are bound to. *)
C3_RightRecipient(ws, viewerId, sent) ==
    /\ Len(sent) <= 1
    /\ \A i \in DOMAIN sent :
          LET to == sent[i].to
              r == connections[ws].roomId
          IN /\ to \in DOMAIN connections
             /\ connections[to].roomId = r
             /\ IF connections[ws].type = "host"
                THEN /\ IsViewerOf(to, r)
                     /\ to \in ViewerSet(r)
                     /\ connections[to].viewerId = viewerId
                ELSE rooms[r].host = to

C3_ForwardStaysInRoom ==
    \A ws \in Conns : \A viewerId \in ViewerIdInputs : \A p \in Payloads :
        CanSend(ws) =>
            /\ C3_RightRecipient(ws, viewerId, handleOffer(ws, viewerId, p))
            /\ C3_RightRecipient(ws, viewerId, handleAnswer(ws, p))
            /\ C3_RightRecipient(ws, viewerId, handleIceCandidate(ws, viewerId, p))

(* C4: every binding names a room of the room table, and a viewer binding's
   connection is a member of that room's viewer set. *)
C4_BindingsReferToRooms ==
    \A c \in DOMAIN connections :
        /\ connections[c].roomId \in DOMAIN rooms
        /\ connections[c].type = "viewer" => c \in ViewerSet(connections[c].roomId)

(* C5 as stated: in every state, a create-room that names a room of the room
   table is answered with `Room already exists` and changes neither table, so
   the room stays hosted by the connection that created it. *)
C5_DuplicateAlwaysRejected ==
    \A ws \in Conns : \A r \in DOMAIN rooms :
        CanSend(ws) =>
            handleCreateRoom(ws, Str(r)) = Reply(ErrorMsg(ws, "Room already exists"))

(* C5 as amended: a create-room that names a room of the room table fails and
   changes neither table: with `Room already exists` while the table holds
   fewer than maxRooms rooms, with `Maximum rooms reached` once it holds
   maxRooms; and no step changes the host of a room that stays in the table. *)
C5_DuplicateFails ==
    \A ws \in Conns : \A r \in DOMAIN rooms :
        CanSend(ws) =>
            handleCreateRoom(ws, Str(r))
                = Reply(ErrorMsg(ws, IF Cardinality(DOMAIN rooms) < maxRooms
                                     THEN "Room already exists"
                                     ELSE "Maximum rooms reached"))

C5_DuplicateRejected ==
    /\ [] C5_DuplicateFails
    /\ [][\A r \in (DOMAIN rooms) \cap (DOMAIN rooms') :
             rooms'[r].host = rooms[r].host]_vars

\* a create-room naming another connection's room was answered `Room already exists`
C5_Witness ==
    \E ws \in Conns :
        /\ out = <<ErrorMsg(ws, "Room already exists")>>
        /\ rooms # << >>
        /\ \A r \in DOMAIN rooms : rooms[r].host # ws

(* C6 as stated: the room table never holds more than maxRooms rooms, and any
   create-room issued while it holds maxRooms is answered with `Maximum rooms
   reached` and changes neither table. *)
C6_CapacityAlwaysReported ==
    /\ Cardinality(DOMAIN rooms) <= maxRooms
    /\ \A ws \in Conns : \A roomId \in RoomIdInputs :
          (CanSend(ws) /\ Cardinality(DOMAIN rooms) >= maxRooms) =>
              handleCreateRoom(ws, roomId) = Reply(ErrorMsg(ws, "Maximum rooms reached"))

(* C6 as amended: the room table never holds more than maxRooms rooms, and a
   create-room issued while it holds maxRooms changes neither table and is
   answered with `Maximum rooms reached` when its identifier is a non-empty
   string of at most 20 characters, with `Invalid room ID` otherwise. *)
C6_RoomCountBounded ==
    /\ Cardinality(DOMAIN rooms) <= maxRooms
    /\ \A ws \in Conns : \A roomId \in RoomIdInputs :
          (CanSend(ws) /\ Cardinality(DOMAIN rooms) >= maxRooms) =>
              handleCreateRoom(ws, roomId)
                  = Reply(ErrorMsg(ws, IF roomId.t = "string" /\ roomId.v # ""
                                          /\ Len(roomId.v) <= 20
                                       THEN "Maximum rooms reached"
                                       ELSE "Invalid room ID"))

\* a create-room was refused for capacity while the table holds maxRooms rooms
C6_Witness ==
    \E ws \in Conns :
        /\ out = <<ErrorMsg(ws, "Maximum rooms reached")>>
        /\ Cardinality(DOMAIN rooms) = maxRooms

(* C7: in every state, a join-room whose identifier is not in the room table is
   answered with room-not-found, to the requester only, and changes neither
   the room table nor the binding table (so no room appears, the requester
   gets no binding and no host is notified). *)
C7_JoinMissingRoom ==
    \A ws \in Conns : \A roomId \in RoomIdInputs : \A viewerId \in ViewerIds :
        (CanSend(ws) /\ (roomId.t # "string" \/ roomId.v \notin DOMAIN rooms)) =>
            handleJoinRoom(ws, roomId, viewerId) = Reply(RoomNotFound(ws))

\* a join-room was answered room-not-found while other rooms exist
C7_Witness ==
    \E ws \in Conns :
        /\ out = <<RoomNotFound(ws)>>
        /\ ws \notin DOMAIN connections
        /\ rooms # << >>

(* C8: a successful join-room writes room-joined with a non-empty viewerId to
   the viewer and one viewer-joined with the same viewerId to the room's open
   host; and while that viewer is a member of the room, an offer its host
   sends with that viewerId is forwarded to that viewer and to nobody else. *)
C8_JoinAnnounced ==
    \A ws \in Conns : \A r \in DOMAIN rooms : \A viewerId \in ViewerIds :
        CanSend(ws) =>
            /\ viewerId # ""
            /\ handleJoinRoom(ws, Str(r), viewerId).out
                 = <<Msg(ws, "room-joined", r, viewerId, NoPayload, "")>>
                   \o (IF IsOpen(rooms[r].host)
                       THEN <<Notify(rooms[r].host, "viewer-joined", viewerId)>>
                       ELSE <<>>)

C8_OfferReachesViewer ==
    \A r \in DOMAIN rooms : \A v \in ViewerSet(r) : \A p \in Payloads :
        (IsViewerOf(v, r) /\ IsOpen(v) /\ CanSend(rooms[r].host)) =>
            handleOffer(rooms[r].host, connections[v].viewerId, p)
                = <<Forward(v, "offer", "", p)>>

C8_JoinThenOffer == C8_JoinAnnounced /\ C8_OfferReachesViewer

(* C9: a room whose host has a heartbeat probe outstanding is eventually out
   of the room table unless the host answers the probe; a connection that is
   no longer open never gets a room again; and a join-room for an identifier
   that is not in the table is answered with room-not-found. *)
C9_HasRoom(h, r) == r \in DOMAIN rooms /\ rooms[r].host = h

C9_JoinAfterRemoval ==
    \A ws \in Conns : \A r \in RoomNames \ DOMAIN rooms : \A viewerId \in ViewerIds :
        CanSend(ws) => handleJoinRoom(ws, Str(r), viewerId).out = <<RoomNotFound(ws)>>

C9_StaleRoomRemoved ==
    /\ \A h \in Conns : \A r \in RoomNames :
          (C9_HasRoom(h, r) /\ ~isAlive[h]) ~> (~C9_HasRoom(h, r) \/ isAlive[h])
    /\ [][\A h \in Conns : \A r \in RoomNames :
             (net[h] # "OPEN" /\ ~C9_HasRoom(h, r)) => ~C9_HasRoom(h, r)']_vars
    /\ [] C9_JoinAfterRemoval

\* a host was terminated, its room is gone although its binding still names
\* it, and a join-room was then answered room-not-found
C9_Witness ==
    \E h \in Conns : \E ws \in Conns :
        /\ net[h] = "DESTROYED"
        /\ h \in DOMAIN connections
        /\ connections[h].type = "host"
        /\ connections[h].roomId \notin DOMAIN rooms
        /\ out = <<RoomNotFound(ws)>>

(* C10: every room of the room table has a host that is bound, in the binding
   table, as host of exactly that room. *)
C10_RoomsHaveBoundHost ==
    \A r \in DOMAIN rooms :
        /\ rooms[r].host \in DOMAIN connections
        /\ connections[rooms[r].host] = HostBinding(r)

(* C11: a leave-room of a connection bound as host of a room of the table has
   the effect of that host's disconnection: the room is removed, the binding
   is removed and every open viewer of the room is sent host-disconnected. *)
C11_HostLeaveIsDisconnect ==
    \A ws \in Conns :
        (/\ CanSend(ws)
         /\ ws \in DOMAIN connections
         /\ connections[ws].type = "host"
         /\ connections[ws].roomId \in DOMAIN rooms) =>
            handleLeaveRoom(ws) = handleDisconnection(net, ws)

(* C12: a connection that is bound never has its binding replaced, and every
   connection is host of at most one room and member of at most one viewer
   set, never both. *)
C12_Hosted(c) == {r \in DOMAIN rooms : rooms[r].host = c}
C12_MemberOf(c) == {r \in DOMAIN rooms : c \in ViewerSet(r)}

C12_OneRole ==
    \A c \in Conns : Cardinality(C12_Hosted(c)) + Cardinality(C12_MemberOf(c)) <= 1

C12_BindingKept ==
    \A c \in (DOMAIN connections) \cap (DOMAIN connections') :
        connections'[c] = connections[c]

C12_BindOnlyWhenUnbound == [] C12_OneRole /\ [][C12_BindingKept]_vars

(* C13: once 'error' has run the disconnect cleanup of a connection, the
   'close' that follows runs it to no effect: it writes nothing and leaves
   the room table and the binding table as they are. *)
C13_CleanupRunsOnce ==
    \A ws \in Conns :
        net[ws] = "FAILED" =>
            handleDisconnection([net EXCEPT ![ws] = "CLOSED"], ws) = NoEffect

(* C14: a heartbeat tick terminates every open connection that has not
   answered the ping of the tick before, terminates no connection that has,
   and leaves every connection it keeps with a ping outstanding; so a
   connection that stops answering is terminated by the second tick. *)
C14_Tick ==
    Heartbeat =>
        \A c \in Conns :
            net[c] = "OPEN" =>
                IF isAlive[c]
                THEN net'[c] = "OPEN" /\ ~isAlive'[c]
                ELSE net'[c] = "DESTROYED"

C14_HeartbeatTerminatesSilent ==
    /\ [][C14_Tick]_vars
    /\ [][\A c \in Conns : (net[c] = "OPEN" /\ net'[c] = "DESTROYED") => ~isAlive[c]]_vars

\* the heartbeat has terminated one connection and kept another, which had
\* answered its ping
C14_Witness ==
    \E c, d \in Conns :
        /\ net[c] = "DESTROYED" /\ c \in handlers
        /\ net[d] = "OPEN" /\ d \in handlers /\ ~isAlive[d]
        /\ out = <<>>

(* C15: the number of registered connections never exceeds maxConnections and
   is the number of accepted connections that have not closed; a connection
   that arrives while connectionCount equals maxConnections is closed with
   code 1013, is not counted and gets no handlers, and no connection without
   handlers ever has a frame handled, a binding, a room or a place in a
   viewer set. *)
C15_Accepted == {c \in handlers : net[c] # "CLOSED"}
C15_Rejected == {c \in Conns : net[c] # "NEW" /\ c \notin handlers}

C15_CountBounded ==
    /\ connectionCount <= maxConnections
    /\ connectionCount = Cardinality(C15_Accepted)
    /\ \A c \in C15_Rejected :
          /\ ~CanSend(c)
          /\ c \notin DOMAIN connections
          /\ C12_Hosted(c) = {}
          /\ C12_MemberOf(c) = {}

C15_RejectedAtCap ==
    \A ws \in Conns :
        (net[ws] = "NEW" /\ net'[ws] # "NEW" /\ connectionCount = maxConnections) =>
            /\ net'[ws] = "CLOSING"
            /\ Len(out') = 1
            /\ out'[1].to = ws /\ out'[1].type = "close" /\ out'[1].code = 1013
            /\ ws \notin handlers'
            /\ connectionCount' = connectionCount
            /\ rooms' = rooms
            /\ connections' = connections

C15_ConnectionCap == [] C15_CountBounded /\ [][C15_RejectedAtCap]_vars

\* a connection was rejected while maxConnections connections are registered
C15_Witness ==
    \E c \in C15_Rejected :
        /\ connectionCount = maxConnections
        /\ Len(out) = 1
        /\ out[1].to = c /\ out[1].type = "close" /\ out[1].code = 1013

(* C16: no viewer set ever holds more than 50 connections, and a join-room to
   a room whose viewer set holds 50 is answered with `Room is full` and
   changes neither table. *)
C16_ViewerSetBounded ==
    \A r \in DOMAIN rooms :
        /\ Len(rooms[r].viewers) <= 50
        /\ Len(rooms[r].viewers) = 50 =>
              \A ws \in CapActors : \A viewerId \in ViewerIds :
                  CanSend(ws) =>
                      handleJoinRoom(ws, Str(r), viewerId)
                          = Reply(ErrorMsg(ws, "Room is full"))

\* a join-room was answered `Room is full` by a room that holds 50 viewers,
\* the requester staying unbound
C16_Witness ==
    \E ws \in CapActors : \E r \in DOMAIN rooms :
        /\ out = <<ErrorMsg(ws, "Room is full")>>
        /\ Len(rooms[r].viewers) = 50
        /\ ws \notin DOMAIN connections

(* C17: two connections that are viewers of one room never carry the same
   viewerId. *)
C17_ViewerIdsUnique ==
    \A r \in DOMAIN rooms : \A v, w \in ViewerSet(r) :
        (v # w /\ IsViewerOf(v, r) /\ IsViewerOf(w, r)) =>
            connections[v].viewerId # connections[w].viewerId

(* C18: a create-room whose identifier is empty, absent, not a string, longer
   than 20 characters or holds a character that is no letter or digit is
   answered with `Invalid room ID` and changes neither table. *)
C18_InvalidIds ==
    {Str(""), Undefined, Num7, Str(LongId), Str("b!"), Str("x y")}

C18_InvalidIdRejected ==
    \A ws \in Conns : \A roomId \in C18_InvalidIds :
        CanSend(ws) =>
            handleCreateRoom(ws, roomId) = Reply(ErrorMsg(ws, "Invalid room ID"))

(* C19: identifiers that differ in letter case only name one room: while the
   table has room for more, a create-room with the other spelling of a room of
   the table is answered `Room already exists`, and a join-room with it joins
   that room. *)
C19_OtherCase(r) ==
    CASE r = "A" -> "a"
      [] r = "B" -> "b"
      [] r = "C" -> "c"

C19_CaseInsensitive ==
    \A ws \in Conns : \A r \in DOMAIN rooms : \A viewerId \in ViewerIds :
        (CanSend(ws) /\ Cardinality(DOMAIN rooms) < maxRooms) =>
            /\ handleCreateRoom(ws, Str(C19_OtherCase(r)))
                 = Reply(ErrorMsg(ws, "Room already exists"))
            /\ LET e == handleJoinRoom(ws, Str(C19_OtherCase(r)), viewerId)
               IN /\ DOMAIN e.rooms = DOMAIN rooms
                  /\ ws \in Range(e.rooms[r].viewers)

(* C20: a janitor sweep that finds an expired room whose host is open deletes
   the room and closes the host with a code other than 1000, 1003, 1009, 1011
   and 1013. *)
C20_ExpiryCloseCode ==
    \A r \in DOMAIN rooms :
        (rooms[r].expired /\ IsOpen(rooms[r].host)) =>
            /\ r \notin DOMAIN cleanupStaleRooms.rooms
            /\ \E i \in DOMAIN cleanupStaleRooms.out :
                  /\ cleanupStaleRooms.out[i].to = rooms[r].host
                  /\ cleanupStaleRooms.out[i].type = "close"
                  /\ cleanupStaleRooms.out[i].code \notin {1000, 1003, 1009, 1011, 1013}

(* C21: when the janitor and the host's disconnect cleanup both act on one
   room, each open viewer of the room is sent host-disconnected exactly once
   and the host's binding is removed: if the janitor removes the room while
   the host's 'close' is still to come, the sweep and that cleanup together
   write one host-disconnected to each viewer and the cleanup removes the
   host's binding; if the cleanup removes the room, it and the next sweep
   together write one. *)
C21_Count(seq, v) == Cardinality(Sent(seq, v, "host-disconnected"))

C21_JanitorFirst ==
    \A r \in (DOMAIN rooms) \ (DOMAIN rooms') : \A h \in Conns :
        (h = rooms[r].host /\ net'[h] \in {"CLOSING", "DESTROYED"}) =>
            /\ \A v \in ViewerSet(r) :
                  net'[v] = "OPEN" =>
                      C21_Count(out', v)
                        + C21_Count((handleDisconnection([net EXCEPT ![h] = "CLOSED"], h).out)', v)
                        = 1
            /\ h \notin DOMAIN (handleDisconnection([net EXCEPT ![h] = "CLOSED"], h).connections)'

C21_DisconnectFirst ==
    \A r \in (DOMAIN rooms) \ (DOMAIN rooms') : \A h \in Conns :
        (h = rooms[r].host /\ net[h] = "OPEN" /\ net'[h] \in {"FAILED", "CLOSED"}) =>
            \A v \in ViewerSet(r) :
                net'[v] = "OPEN" =>
                    C21_Count(out', v) + C21_Count((cleanupStaleRooms.out)', v) = 1

C21_JanitorAndDisconnect ==
    [][C21_JanitorFirst]_vars /\ [][C21_DisconnectFirst]_vars

(* C22: an offer is forwarded only for a sender bound as host, an answer only
   for a sender bound as viewer, an ice-candidate only for a bound sender;
   an answer, and a viewer's ice-candidate, go to the host the room table
   records for the sender's room and to nobody else; and no step writes an
   answer, viewer-joined or viewer-left to a connection that no room has as
   its host. *)
C22_Bound(ws, type) == ws \in DOMAIN connections /\ connections[ws].type = type

C22_ToHostOf(ws, sent) ==
    \A i \in DOMAIN sent :
        /\ connections[ws].roomId \in DOMAIN rooms
        /\ sent[i].to = rooms[connections[ws].roomId].host

C22_Gated ==
    \A ws \in Conns : \A viewerId \in ViewerIdInputs : \A p \in Payloads :
        /\ handleOffer(ws, viewerId, p) # <<>> => C22_Bound(ws, "host")
        /\ handleAnswer(ws, p) # <<>> =>
              C22_Bound(ws, "viewer") /\ C22_ToHostOf(ws, handleAnswer(ws, p))
        /\ handleIceCandidate(ws, viewerId, p) # <<>> =>
              /\ ws \in DOMAIN connections
              /\ connections[ws].type = "viewer" =>
                    C22_ToHostOf(ws, handleIceCandidate(ws, viewerId, p))

C22_HostOnly ==
    \A i \in DOMAIN out' :
        out'[i].type \in {"answer", "viewer-joined", "viewer-left"} =>
            \E r \in DOMAIN rooms : rooms[r].host = out'[i].to

C22_RoleGated == [] C22_Gated /\ [][C22_HostOnly]_vars

\* a viewer is open and bound next to another open viewer of its room: an
\* offer it sends with that viewer's identifier is not forwarded
C22_Witness ==
    \E ws, v \in Conns : \E r \in DOMAIN rooms : \E p \in Payloads :
        /\ ws # v
        /\ CanSend(ws) /\ IsViewerOf(ws, r)
        /\ IsOpen(v) /\ IsViewerOf(v, r) /\ v \in ViewerSet(r)
        /\ handleOffer(ws, connections[v].viewerId, p) = <<>>

(* C23: no closed connection has a binding, and a leave-room removes the
   binding of the connection that sends it. *)
C23_BindingRemoved ==
    /\ \A c \in Conns : net[c] = "CLOSED" => c \notin DOMAIN connections
    /\ \A ws \in Conns : CanSend(ws) => ws \notin DOMAIN handleLeaveRoom(ws).connections

(* C24: a create-room that fails (identifier empty, absent, not a string or
   longer than 20 characters; table at maxRooms; identifier in use) and a
   join-room that fails (identifier not a string or not in the table; viewer
   set at 50) write one reply, `error` or `room-not-found`, to the requester
   and change neither table; and a step that writes such a reply changes no
   connection's transport state. *)
C24_BadId(roomId) == roomId.t # "string" \/ roomId.v = "" \/ Len(roomId.v) > 20

C24_ErrorReply(e, ws, types) ==
    /\ Len(e.out) = 1
    /\ e.out[1].to = ws
    /\ e.out[1].type \in types
    /\ e.rooms = rooms
    /\ e.roomOrder = roomOrder
    /\ e.connections = connections

C24_FailedRequests ==
    \A ws \in CapActors : \A roomId \in RoomIdInputs : \A viewerId \in ViewerIds :
        CanSend(ws) =>
            /\ (\/ C24_BadId(roomId)
                \/ Cardinality(DOMAIN rooms) >= maxRooms
                \/ roomId.v \in DOMAIN rooms) =>
                  C24_ErrorReply(handleCreateRoom(ws, roomId), ws, {"error"})
            /\ (\/ roomId.t # "string"
                \/ roomId.v \notin DOMAIN rooms
                \/ Len(rooms[roomId.v].viewers) >= 50) =>
                  C24_ErrorReply(handleJoinRoom(ws, roomId, viewerId), ws,
                                 {"error", "room-not-found"})

C24_RoomErrorReplies ==
    /\ [] C24_FailedRequests
    /\ [][(Len(out') = 1 /\ out'[1].type \in {"error", "room-not-found"}) => net' = net]_vars

\* a create-room was answered `Invalid room ID` next to a room that is full
C24_Witness ==
    \E ws \in CapActors : \E r \in DOMAIN rooms :
        /\ out = <<ErrorMsg(ws, "Invalid room ID")>>
        /\ Len(rooms[r].viewers) = 50

(* C25 as stated: a frame of unknown kind, without `type` or not decodable as
   JSON is dropped (nothing is written, no connection changes state); an
   oversize frame closes the sender with code 1009. *)
C25_Dropped(ws, kind) == onMessage(ws, kind) = [net |-> net, out |-> <<>>]

C25_ClosedWith(ws, kind, code) ==
    /\ onMessage(ws, kind).net = [net EXCEPT ![ws] = "CLOSING"]
    /\ Len(onMessage(ws, kind).out) = 1
    /\ onMessage(ws, kind).out[1].to = ws
    /\ onMessage(ws, kind).out[1].type = "close"
    /\ onMessage(ws, kind).out[1].code = code

C25_FrameFaults ==
    \A ws \in Conns :
        CanSend(ws) =>
            /\ \A kind \in {"no-type", "unknown-type"} : C25_Dropped(ws, kind)
            /\ \A kind \in {"not-json", "json-null"} : C25_ClosedWith(ws, kind, 1003)
            /\ C25_ClosedWith(ws, "oversize", 1009)

C26_Relayed ==
    {"offer", "answer", "ice-candidate", "viewer-joined", "viewer-left", "host-disconnected"}

C26_ToOpen(n, sent) ==
    \A i \in DOMAIN sent : sent[i].type \in C26_Relayed => n[sent[i].to] = "OPEN"

C26_Guarded ==
    /\ \A ws \in Conns : \A viewerId \in ViewerIdInputs : \A p \in Payloads :
          /\ C26_ToOpen(net, handleOffer(ws, viewerId, p))
          /\ C26_ToOpen(net, handleAnswer(ws, p))
          /\ C26_ToOpen(net, handleIceCandidate(ws, viewerId, p))
    /\ \A ws \in Conns :
          /\ C26_ToOpen(net, handleLeaveRoom(ws).out)
          /\ \A st \in {"CLOSING", "CLOSED"} :
                C26_ToOpen([net EXCEPT ![ws] = st],
                           handleDisconnection([net EXCEPT ![ws] = st], ws).out)
          /\ \A roomId \in RoomIdInputs : \A viewerId \in ViewerIds :
                CanSend(ws) => C26_ToOpen(net, handleJoinRoom(ws, roomId, viewerId).out)

C27_Unbound(ws) == ws \notin DOMAIN connections

C27_HandlersReturn ==
    \A ws \in Conns :
        C27_Unbound(ws) =>
            /\ handleLeaveRoom(ws) = NoEffect
            /\ \A st \in {"CLOSING", "CLOSED"} :
                  handleDisconnection([net EXCEPT ![ws] = st], ws) = NoEffect

C27_Disconnects(ws) == net'[ws] # net[ws] /\ net'[ws] \in {"FAILED", "CLOSED"}

C27_UnboundNoEffect ==
    /\ [] C27_HandlersReturn
    /\ [][\A ws \in Conns :
            (C27_Unbound(ws) /\ C27_Disconnects(ws)) =>
                (rooms' = rooms /\ connections' = connections /\ out' = <<>>)]_vars

\* an unbound connection has gone while a room with an open host and a
\* viewer exists; nothing was written
C27_Witness ==
    \E ws \in Conns : \E r \in DOMAIN rooms :
        /\ C27_Unbound(ws) /\ net[ws] = "CLOSED"
        /\ IsOpen(rooms[r].host) /\ ViewerSet(r) # {}
        /\ out = <<>>
        /\ handleLeaveRoom(ws) = NoEffect

(* C28: after an unexpected close the page makes at most maxRetries
   reconnection attempts without a successful open in between, each after a
   delay that grows with the attempt's number; when the ceiling is reached it
   makes no further attempt and shows the failure; onopen sets the retry
   counter to 0. *)
C28_AtMostMaxRetries == client.attempts <= maxRetries

C28_TimerIdsSuffice == client.timersSet <= 2 * MaxSockets

(* C29: every member of a room's viewer set is bound as a viewer of that
   room, is in the viewer set of no other room and is the host of no room. *)
C29_MembersBoundHere ==
    \A r \in DOMAIN rooms : \A v \in ViewerSet(r) :
        /\ v \in DOMAIN connections
        /\ connections[v].type = "viewer"
        /\ connections[v].roomId = r
        /\ \A q \in DOMAIN rooms : q # r => v \notin ViewerSet(q)
        /\ \A q \in DOMAIN rooms : rooms[q].host # v

(* C30: a connection whose binding a leave-room has removed is never bound
   again: in the state after such a step, no create-room and no join-room
   from that connection changes the binding table. *)
C30_Left(ws) ==
    /\ ws \in DOMAIN connections
    /\ ws \notin DOMAIN connections'
    /\ net'[ws] = "OPEN" /\ net[ws] = "OPEN"
    /\ frames' = frames + 1

C30_NeverBoundAgain ==
    [][\A ws \in Conns :
          C30_Left(ws) =>
              \A roomId \in RoomIdInputs :
                  /\ (handleCreateRoom(ws, roomId).connections)' = connections'
                  /\ \A viewerId \in ViewerIds :
                        (handleJoinRoom(ws, roomId, viewerId).connections)' = connections']_vars

(* C31 as stated: a host's offer or ICE candidate whose viewerId matches no
   member of its room's viewer set is written to nobody; when a member
   matches, exactly one message is written, to the first member that
   matches. *)
C31_Matches(r, viewerId) ==
    {i \in DOMAIN rooms[r].viewers :
        /\ rooms[r].viewers[i] \in DOMAIN connections
        /\ connections[rooms[r].viewers[i]].viewerId = viewerId}

C31_First(r, viewerId) ==
    rooms[r].viewers[CHOOSE i \in C31_Matches(r, viewerId) :
                        \A j \in C31_Matches(r, viewerId) : i <= j]

C31_HostOf(ws, r) ==
    ws \in DOMAIN connections /\ connections[ws].type = "host" /\ connections[ws].roomId = r

C31_Relays(ws, viewerId, p) ==
    {<<"offer", handleOffer(ws, viewerId, p)>>,
     <<"ice-candidate", handleIceCandidate(ws, viewerId, p)>>}

C31_OneMessageOnMatch ==
    \A ws \in Conns : \A r \in DOMAIN rooms :
        C31_HostOf(ws, r) =>
            \A viewerId \in ViewerIdInputs : \A p \in Payloads :
                \A relay \in C31_Relays(ws, viewerId, p) :
                    IF C31_Matches(r, viewerId) = {}
                    THEN relay[2] = <<>>
                    ELSE /\ Len(relay[2]) = 1
                         /\ relay[2][1].to = C31_First(r, viewerId)

(* C31 as amended: no match, nothing is written; on a match the first
   matching member receives exactly one message if its connection is open and
   nothing is written otherwise; a step that writes an offer, an answer or an
   ICE candidate changes neither table. *)
C31_OneMessageToOpenMatch ==
    \A ws \in Conns : \A r \in DOMAIN rooms :
        C31_HostOf(ws, r) =>
            \A viewerId \in ViewerIdInputs : \A p \in Payloads :
                \A relay \in C31_Relays(ws, viewerId, p) :
                    IF C31_Matches(r, viewerId) = {}
                    THEN relay[2] = <<>>
                    ELSE IF IsOpen(C31_First(r, viewerId))
                    THEN relay[2] = <<Forward(C31_First(r, viewerId), relay[1], "", p)>>
                    ELSE relay[2] = <<>>

C31_RoutingMiss ==
    /\ [] C31_OneMessageToOpenMatch
    /\ [][(\E i \in DOMAIN out' : out'[i].type \in {"offer", "answer", "ice-candidate"})
             => (rooms' = rooms /\ connections' = connections)]_vars

\* an offer was written to one member of the sender's viewer set, and an
\* offer naming nobody would be written to no one
C31_Witness ==
    \E ws \in Conns : \E r \in DOMAIN rooms : \E viewerId \in ViewerIdInputs :
        /\ C31_HostOf(ws, r)
        /\ Len(out) = 1 /\ out[1].type = "offer"
        /\ \E i \in DOMAIN rooms[r].viewers : rooms[r].viewers[i] = out[1].to
        /\ C31_Matches(r, viewerId) = {}
        /\ handleOffer(ws, viewerId, "sdp1") = <<>>

(* C32 as stated: an offer, answer or candidate is delivered with the value
   the sender gave, and an answer or candidate delivered to the host carries
   the viewerId of the sender's binding, whatever viewerId the frame
   carried. *)
C32_IsViewer(ws) == ws \in DOMAIN connections /\ connections[ws].type = "viewer"

C32_SameValue(sent, p) == \A i \in DOMAIN sent : sent[i].payload = p

C32_TaggedBy(sent, ws) == \A i \in DOMAIN sent : sent[i].viewerId = connections[ws].viewerId.v

C32_Tagged ==
    \A ws \in Conns : \A viewerId \in ViewerIdInputs : \A p \in JsonValues :
        C32_IsViewer(ws) =>
            /\ C32_TaggedBy(handleAnswer(ws, p), ws)
            /\ C32_TaggedBy(handleIceCandidate(ws, viewerId, p), ws)

C32_Relayed(ws, viewerId, p) ==
    /\ C32_SameValue(handleOffer(ws, viewerId, p), p)
    /\ C32_SameValue(handleAnswer(ws, p), p)
    /\ C32_SameValue(handleIceCandidate(ws, viewerId, p), p)

C33_Threw(ws) ==
    /\ out' # <<>>
    /\ out'[Len(out')].type = "close"
    /\ out'[Len(out')].to = ws
    /\ out'[Len(out')].code = 1011

C33_OthersUntouched(ws) ==
    /\ net'[ws] = "CLOSING"
    /\ \A c \in Conns \ {ws} : net'[c] = net[c]
    /\ \A i \in 1..(Len(out') - 1) : out'[i].type # "close"
    /\ (DOMAIN connections') \ {ws} = (DOMAIN connections) \ {ws}
    /\ \A c \in (DOMAIN connections) \ {ws} : connections'[c] = connections[c]
    /\ \A r \in DOMAIN rooms :
          /\ r \in DOMAIN rooms'
          /\ rooms'[r].host = rooms[r].host
          /\ rooms'[r].expired = rooms[r].expired
          /\ SeqRemove(rooms'[r].viewers, ws) = SeqRemove(rooms[r].viewers, ws)
    /\ \A r \in (DOMAIN rooms') \ (DOMAIN rooms) : rooms'[r].host = ws

C33_OnlySenderClosed ==
    [][\A ws \in Conns : C33_Threw(ws) => C33_OthersUntouched(ws)]_vars

\* the handling of a viewer's frame threw: the viewer is being closed with
\* 1011 while the host of its room is open and bound as before
C33_Witness ==
    \E ws \in Conns : \E r \in DOMAIN rooms :
        /\ out # <<>> /\ out[Len(out)] = Close(ws, 1011, "Message processing error")
        /\ net[ws] = "CLOSING"
        /\ ws \in ViewerSet(r)
        /\ rooms[r].host # ws /\ IsOpen(rooms[r].host)
        /\ rooms[r].host \in DOMAIN connections
        /\ connections[rooms[r].host] = HostBinding(r)

(* C34: a janitor sweep removes every room whose host connection is not open
   when the sweep starts, and leaves a room whose host is open and whose age
   is within the threshold as it is: the room, its host's connection and the
   sweep's writes to that host. *)
C34_SweepRemovesDeadKeepsLive ==
    \A r \in DOMAIN rooms :
        /\ HostNotOpen(net, rooms[r]) => r \notin DOMAIN cleanupStaleRooms.rooms
        /\ (~HostNotOpen(net, rooms[r]) /\ ~RoomExpired(rooms[r])) =>
              /\ r \in DOMAIN cleanupStaleRooms.rooms
              /\ cleanupStaleRooms.rooms[r] = rooms[r]
              /\ cleanupStaleRooms.net[rooms[r].host] = net[rooms[r].host]

(* C35: an answer or ICE candidate of a viewer is written to a room's host
   only if the sender is a member of that room's viewer set; a connection
   that joined a room since deleted is not a member of the room created
   later under the same identifier. *)
C35_FromMember(ws, sent) ==
    \A i \in DOMAIN sent :
        \A r \in DOMAIN rooms :
            (rooms[r].host = sent[i].to /\ connections[ws].roomId = r) => ws \in ViewerSet(r)

C35_OnlyMembersReachHost ==
    \A ws \in Conns :
        (ws \in DOMAIN connections /\ connections[ws].type = "viewer") =>
            \A viewerId \in ViewerIdInputs : \A p \in Payloads :
                /\ C35_FromMember(ws, handleAnswer(ws, p))
                /\ C35_FromMember(ws, handleIceCandidate(ws, viewerId, p))

(* C36: for a room whose host stays open, the viewerIds announced to the host
   (viewer-joined, minus viewer-left) are the viewerIds of the members of the
   viewer set: in every step the viewerIds of the members change by exactly
   the viewer-joined and viewer-left frames written to the host in that
   step. *)
C36_MemberIds(r) ==
    {connections[v].viewerId : v \in {m \in ViewerSet(r) : m \in DOMAIN connections}}

C36_Announced(sent, h, type) ==
    {Str(sent[i].viewerId) : i \in {j \in DOMAIN sent : sent[j].to = h /\ sent[j].type = type}}

C36_HostViewMatches ==
    [][\A r \in (DOMAIN rooms) \cap (DOMAIN rooms') : \A h \in Conns :
          (h = rooms[r].host /\ h = rooms'[r].host /\ net[h] = "OPEN" /\ net'[h] = "OPEN") =>
              C36_MemberIds(r)' =
                  (C36_MemberIds(r) \cup C36_Announced(out', h, "viewer-joined"))
                     \ C36_Announced(out', h, "viewer-left")]_vars

(* C37: connectionCount is the number of accepted connections whose close
   event has not fired and is never negative; accepting a connection adds 1,
   the close event of an accepted connection subtracts 1, and an error
   event, the rejection of a connection and the close event of a rejected
   connection leave it as it is. *)
C37_Registered == {c \in handlers : net[c] # "CLOSED"}

C37_CountIsRegistered ==
    /\ connectionCount = Cardinality(C37_Registered)
    /\ connectionCount >= 0

C37_CountStep ==
    \A ws \in Conns :
        /\ (ws \notin handlers /\ ws \in handlers') => connectionCount' = connectionCount + 1
        /\ (ws \in handlers /\ net[ws] # "CLOSED" /\ net'[ws] = "CLOSED") =>
              connectionCount' = connectionCount - 1
        /\ (net[ws] # "FAILED" /\ net'[ws] = "FAILED") => connectionCount' = connectionCount
        /\ (ws \notin handlers' /\ net'[ws] # net[ws]) => connectionCount' = connectionCount

C37_ConnectionCount == [] C37_CountIsRegistered /\ [][C37_CountStep]_vars

\* two connections are counted, one of them after its error event and before
\* its close event, and a third has been rejected
C37_Witness ==
    /\ connectionCount = 2
    /\ \E c \in C37_Registered : net[c] = "FAILED"
    /\ \E c \in Conns : c \notin handlers /\ net[c] \in {"CLOSING", "CLOSED"}

(* C38: at most one reconnection attempt of the page is pending (a timer set
   by attemptReconnection) or in flight (a socket opened by such a timer that
   is still connecting) at any time. *)
C38_Pending == {t.id : t \in client.timers}
C38_InFlight == {s \in client.reconnecting : client.sockets[s] = "CONNECTING"}

C38_OneAttemptAtATime == Cardinality(C38_Pending) + Cardinality(C38_InFlight) <= 1

(* C39: from cleanup() until the user starts a session again (no room, no
   start in progress) the page opens no signaling socket and sends no
   frame. *)
C39_Stopped == client.roomId = Null /\ client.starting = {}

C39_Opened == {s \in Sockets : client.sockets[s] = "NONE" /\ client.sockets'[s] # "NONE"}

C39_QuietAfterCleanup ==
    [][C39_Stopped =>
          /\ C39_Opened \subseteq client.starting'
          /\ client.sent' = <<>>]_vars

====
